---- MODULE Spec2Model ----
(***************************************************************************)
(* Model of ht02_solid.py: Book, Library, LoggedLibrary, LibraryManager.    *)
(*                                                                         *)
(* A Python str is a sequence of one-character strings.  A Python list is  *)
(* an object on a heap, so that two names can refer to the same list; a    *)
(* library object is a record holding the address of its list (Library)    *)
(* or the wrapped library (LoggedLibrary).  Every call returns the heap    *)
(* after the call, the value returned and the log lines it emitted.        *)
(***************************************************************************)
EXTENDS Integers, Sequences, FiniteSets, TLC

VARIABLES heap, manager, CURRENT_YEAR, call, last, plain, logged, held, snap

vars == <<heap, manager, CURRENT_YEAR, call, last, plain, logged, held, snap>>

(***************************************************************************)
(* Bounds of the model.                                                    *)
(***************************************************************************)
\* StoreSpec: the longest list a library or a caller holds.
MaxBooks == 2
\* StoreSpec: the most LoggedLibrary wrappers around a Library.
MaxDepth == 2

(***************************************************************************)
(* Program constants.                                                      *)
(***************************************************************************)
MIN_YEAR == 1450
\* the longest title and author LibraryManager admits
MaxChars == 255

\* datetime.now().year when the module is loaded
ThisYear == 2026

\* the value None
None == [cls |-> "NoneType"]

\* no get_all result is current
NoSnap == <<>>

(***************************************************************************)
(* str                                                                     *)
(***************************************************************************)
Whitespace == {" ", "\t", "\n", "\r", "\f"}

Digits == <<"0", "1", "2", "3", "4", "5", "6", "7", "8", "9">>

UpperCase == <<"A", "B", "C", "D", "E", "F", "G", "H", "I", "J", "K", "L", "M",
               "N", "O", "P", "Q", "R", "S", "T", "U", "V", "W", "X", "Y", "Z">>

LowerCase == <<"a", "b", "c", "d", "e", "f", "g", "h", "i", "j", "k", "l", "m",
               "n", "o", "p", "q", "r", "s", "t", "u", "v", "w", "x", "y", "z">>

IsSpace(c) == c \in Whitespace

IsDigitChar(c) == \E d \in 1..Len(Digits) : Digits[d] = c

DigitValue(c) == (CHOOSE d \in 1..Len(Digits) : Digits[d] = c) - 1

LowerChar(c) ==
    IF \E k \in 1..Len(UpperCase) : UpperCase[k] = c
    THEN LowerCase[CHOOSE k \in 1..Len(UpperCase) : UpperCase[k] = c]
    ELSE c

\* s.lower()
Lower(s) == [k \in 1..Len(s) |-> LowerChar(s[k])]

RECURSIVE LStrip(_)
\* s.lstrip()
LStrip(s) == IF s # <<>> /\ IsSpace(s[1]) THEN LStrip(Tail(s)) ELSE s

RECURSIVE RStrip(_)
\* s.rstrip()
RStrip(s) == IF s # <<>> /\ IsSpace(s[Len(s)]) THEN RStrip(SubSeq(s, 1, Len(s) - 1)) ELSE s

\* s.strip()
Strip(s) == RStrip(LStrip(s))

\* s.isdigit()
IsDigit(s) == s # <<>> /\ \A k \in 1..Len(s) : IsDigitChar(s[k])

\* the k-th smallest member of the set S of numbers
Nth(S, k) == CHOOSE x \in S : Cardinality({y \in S : y < x}) = k - 1

\* s.split(): the maximal runs of non-whitespace characters, in order
Split(s) ==
    LET starts == {k \in 1..Len(s) : ~IsSpace(s[k]) /\ (k = 1 \/ IsSpace(s[k - 1]))}
        ends   == {k \in 1..Len(s) : ~IsSpace(s[k]) /\ (k = Len(s) \/ IsSpace(s[k + 1]))}
    IN  [w \in 1..Cardinality(starts) |-> SubSeq(s, Nth(starts, w), Nth(ends, w))]

RECURSIVE Join(_, _)
\* sep.join(words)
Join(sep, words) ==
    IF words = <<>> THEN <<>>
    ELSE IF Len(words) = 1 THEN words[1]
    ELSE words[1] \o sep \o Join(sep, Tail(words))

RECURSIVE DigitsValue(_, _)
\* the value of the decimal digits ds, underscores skipped, after acc
DigitsValue(ds, acc) ==
    IF ds = <<>> THEN acc
    ELSE IF ds[1] = "_" THEN DigitsValue(Tail(ds), acc)
    ELSE DigitsValue(Tail(ds), 10 * acc + DigitValue(ds[1]))

\* int(s): surrounding whitespace dropped, an optional sign, then decimal
\* digits with single underscores allowed between digits; anything else
\* raises ValueError.
ParseInt(s) ==
    LET t    == Strip(s)
        sign == t # <<>> /\ (t[1] = "+" \/ t[1] = "-")
        body == IF sign THEN Tail(t) ELSE t
        wellFormed ==
            /\ body # <<>>
            /\ \A k \in 1..Len(body) : IsDigitChar(body[k]) \/ body[k] = "_"
            /\ body[1] # "_"
            /\ body[Len(body)] # "_"
            /\ \A k \in 1..(Len(body) - 1) : ~(body[k] = "_" /\ body[k + 1] = "_")
    IN  [ok |-> wellFormed,
         value |-> IF ~wellFormed THEN 0
                   ELSE IF t[1] = "-" THEN 0 - DigitsValue(body, 0)
                   ELSE DigitsValue(body, 0)]

(***************************************************************************)
(* The heap of list objects, Book and the LibraryInterface implementations *)
(***************************************************************************)
\* the address a newly created list gets: the lowest one not in use
Fresh(h) == CHOOSE a \in 1..(Cardinality(DOMAIN h) + 1) : a \notin DOMAIN h /\ \A b \in 1..(a - 1) : b \in DOMAIN h

\* h with a new list at address a
Alloc(h, a, items) == [b \in DOMAIN h \cup {a} |-> IF b = a THEN items ELSE h[b]]

\* h without the lists no name refers to any more
Collect(h, roots) == [b \in DOMAIN h \cap roots |-> h[b]]

\* list(xs): a new list with the items of the list at address xs
ListCopy(h, xs) == [heap |-> Alloc(h, Fresh(h), h[xs]), ret |-> Fresh(h)]

Book(title, author, year) == [title |-> title, author |-> author, year |-> year]

\* Book.__str__
BookStr(b) == <<"Title: %s, Author: %s, Year: %d", b.title, b.author, b.year>>

\* Library.__init__, the list self._books being at address a
Library(a) == [cls |-> "Library", _books |-> a]

\* LoggedLibrary.__init__
LoggedLibrary(inner) == [cls |-> "LoggedLibrary", _inner |-> inner]

\* an add_book that puts the book first
Library_add_book_Prepend(h, self, book) ==
    [heap |-> [h EXCEPT ![self._books] = <<book>> \o @], ret |-> None, log |-> <<>>]

Library_add_book(h, self, book) ==
    [heap |-> [h EXCEPT ![self._books] = Append(@, book)], ret |-> None, log |-> <<>>]

\* xs with its k-th item deleted
DeleteAt(xs, k) == SubSeq(xs, 1, k - 1) \o SubSeq(xs, k + 1, Len(xs))

\* a remove_book that deletes the latest book of the title
Library_remove_book_Last(h, self, title) ==
    LET books == h[self._books]
        hits  == {k \in 1..Len(books) : books[k].title = title}
        final == CHOOSE k \in hits : \A j \in hits : k >= j
    IN  IF hits = {}
        THEN [heap |-> h, ret |-> FALSE, log |-> <<>>]
        ELSE [heap |-> [h EXCEPT ![self._books] = DeleteAt(books, final)],
              ret |-> TRUE, log |-> <<>>]

Library_remove_book(h, self, title) ==
    LET books == h[self._books]
        hits  == {k \in 1..Len(books) : books[k].title = title}
        first == CHOOSE k \in hits : \A j \in hits : k <= j
    IN  IF hits = {}
        THEN [heap |-> h, ret |-> FALSE, log |-> <<>>]
        ELSE [heap |-> [h EXCEPT ![self._books] = DeleteAt(books, first)],
              ret |-> TRUE, log |-> <<>>]

\* a get_all that returns self._books itself
Library_get_all_Alias(h, self) == [heap |-> h, ret |-> self._books, log |-> <<>>]

Library_get_all(h, self) ==
    LET copy == ListCopy(h, self._books)
    IN  [heap |-> copy.heap, ret |-> copy.ret, log |-> <<>>]

Library_find_by_title(h, self, title) ==
    LET books == h[self._books]
        hits  == {k \in 1..Len(books) : books[k].title = title}
    IN  [heap |-> h,
         ret |-> IF hits = {} THEN None ELSE books[CHOOSE k \in hits : \A j \in hits : k <= j],
         log |-> <<>>]

RECURSIVE add_book(_, _, _)
RECURSIVE remove_book(_, _, _)
RECURSIVE get_all(_, _)
RECURSIVE find_by_title(_, _, _)

LoggedLibrary_add_book(h, self, book) ==
    LET r == add_book(h, self._inner, book)
    IN  [heap |-> r.heap, ret |-> r.ret, log |-> <<<<"[LOG] add: %s", book.title>>>> \o r.log]

\* a remove_book that logs and does not delegate
LoggedLibrary_remove_book_NoDelegate(h, self, title) ==
    [heap |-> h, ret |-> FALSE, log |-> <<<<"[LOG] remove: %s", title>>>>]

LoggedLibrary_remove_book(h, self, title) ==
    LET r == remove_book(h, self._inner, title)
    IN  [heap |-> r.heap, ret |-> r.ret, log |-> <<<<"[LOG] remove: %s", title>>>> \o r.log]

LoggedLibrary_get_all(h, self) ==
    LET r == get_all(h, self._inner)
    IN  [heap |-> r.heap, ret |-> r.ret, log |-> <<<<"[LOG] get_all">>>> \o r.log]

LoggedLibrary_find_by_title(h, self, title) ==
    LET r == find_by_title(h, self._inner, title)
    IN  [heap |-> r.heap, ret |-> r.ret, log |-> <<<<"[LOG] find: %s", title>>>> \o r.log]

\* self.add_book(book), by the class of self
add_book(h, self, book) ==
    IF self.cls = "Library" THEN Library_add_book(h, self, book)
    ELSE LoggedLibrary_add_book(h, self, book)

\* self.remove_book(title), by the class of self
remove_book(h, self, title) ==
    IF self.cls = "Library" THEN Library_remove_book(h, self, title)
    ELSE LoggedLibrary_remove_book(h, self, title)

\* self.get_all(), by the class of self
get_all(h, self) ==
    IF self.cls = "Library" THEN Library_get_all(h, self)
    ELSE LoggedLibrary_get_all(h, self)

\* self.find_by_title(title), by the class of self
find_by_title(h, self, title) ==
    IF self.cls = "Library" THEN Library_find_by_title(h, self, title)
    ELSE LoggedLibrary_find_by_title(h, self, title)

RECURSIVE BooksAddr(_)
\* the address of the list of the Library at the core of self
BooksAddr(self) == IF self.cls = "Library" THEN self._books ELSE BooksAddr(self._inner)

RECURSIVE Wrapped(_, _)
\* lib inside d LoggedLibrary wrappers
Wrapped(d, lib) == IF d = 0 THEN lib ELSE LoggedLibrary(Wrapped(d - 1, lib))

(***************************************************************************)
(* LibraryManager                                                          *)
(***************************************************************************)
EmptyTitle == <<"Title cannot be empty.">>
TitleTooShort == <<"Title is too short (min 2 chars).">>
TitleTooLong == <<"Title is too long (max 255 chars).">>
EmptyAuthor == <<"Author cannot be empty.">>
AuthorTooShort == <<"Author is too short (min 2 chars).">>
AuthorTooLong == <<"Author is too long (max 255 chars).">>
AuthorAllDigits == <<"Author cannot be only digits.">>
YearNotInteger == <<"Year must be an integer.">>
YearNegative == <<"Year cannot be negative.">>
YearTooEarly == <<"Year is too early (min %d).", MIN_YEAR>>
YearTooLate == <<"Year cannot be in the future (max %d).", CURRENT_YEAR>>
DuplicateBook == <<"Such a book already exists (same title and author).">>
BookAdded == <<"Book added.">>
Removed == <<"Book removed.">>
NotFound == <<"Book not found.">>
Empty == <<"No books in library.">>

_normalize(s) == Join(<<" ">>, Split(s))

\* a _validate_title that admits one character
_validate_title_MinOne(title) ==
    LET log == IF title = <<>> \/ Strip(title) = <<>> THEN <<EmptyTitle>>
               ELSE IF Len(Strip(title)) < 1 THEN <<TitleTooShort>>
               ELSE IF Len(title) > 255 THEN <<TitleTooLong>>
               ELSE <<>>
    IN  [ret |-> log = <<>>, log |-> log]

\* Each validator logs one line and returns False at the first check that
\* fails, and returns True having logged nothing when none does.
_validate_title(title) ==
    LET log == IF title = <<>> \/ Strip(title) = <<>> THEN <<EmptyTitle>>
               ELSE IF Len(Strip(title)) < 2 THEN <<TitleTooShort>>
               ELSE IF Len(title) > 255 THEN <<TitleTooLong>>
               ELSE <<>>
    IN  [ret |-> log = <<>>, log |-> log]

_validate_author(author) ==
    LET a   == Strip(author)
        log == IF author = <<>> \/ Strip(author) = <<>> THEN <<EmptyAuthor>>
               ELSE IF Len(a) < 2 THEN <<AuthorTooShort>>
               ELSE IF Len(a) > 255 THEN <<AuthorTooLong>>
               ELSE IF IsDigit(a) THEN <<AuthorAllDigits>>
               ELSE <<>>
    IN  [ret |-> log = <<>>, log |-> log]

\* a _validate_year with no upper limit
_validate_year_NoUpper(year_str) ==
    LET parsed == ParseInt(year_str)
        y      == parsed.value
        log    == IF ~parsed.ok THEN <<YearNotInteger>>
                  ELSE IF y < 0 THEN <<YearNegative>>
                  ELSE IF y < MIN_YEAR THEN <<YearTooEarly>>
                  ELSE <<>>
    IN  [ret |-> IF log = <<>> THEN <<TRUE, y>> ELSE <<FALSE, None>>, log |-> log]

_validate_year(year_str) ==
    LET parsed == ParseInt(year_str)
        y      == parsed.value
        log    == IF ~parsed.ok THEN <<YearNotInteger>>
                  ELSE IF y < 0 THEN <<YearNegative>>
                  ELSE IF y < MIN_YEAR THEN <<YearTooEarly>>
                  ELSE IF y > CURRENT_YEAR THEN <<YearTooLate>>
                  ELSE <<>>
    IN  [ret |-> IF log = <<>> THEN <<TRUE, y>> ELSE <<FALSE, None>>, log |-> log]

\* an _exists that compares letter case too
_exists_CaseSensitive(title, author, books) ==
    \E k \in 1..Len(books) : books[k].title = title /\ books[k].author = author

_exists(title, author, books) ==
    LET t == Lower(title)
        a == Lower(author)
    IN  \E k \in 1..Len(books) : Lower(books[k].title) = t /\ Lower(books[k].author) = a

\* LibraryManager.__init__
LibraryManager(lib) == [library |-> lib]

\* an add_book that runs every validator whatever the ones before it said
LibraryManager_add_book_AllStages(h, self, title0, author0, year) ==
    LET title  == _normalize(title0)
        author == _normalize(author0)
        vt     == _validate_title(title)
        va     == _validate_author(author)
        vy     == _validate_year(year)
        got    == get_all(h, self.library)
        all_books == ListCopy(got.heap, got.ret)
        added  == add_book(all_books.heap, self.library, Book(title, author, vy.ret[2]))
        log    == vt.log \o va.log \o vy.log
    IN  IF ~(vt.ret /\ va.ret /\ vy.ret[1]) THEN [heap |-> h, log |-> log]
        ELSE IF _exists(title, author, all_books.heap[all_books.ret])
        THEN [heap |-> all_books.heap, log |-> log \o got.log \o <<DuplicateBook>>]
        ELSE [heap |-> added.heap, log |-> log \o got.log \o added.log \o <<BookAdded>>]

\* an add_book that looks for the book before it validates the year
LibraryManager_add_book_UniqueFirst(h, self, title0, author0, year) ==
    LET title  == _normalize(title0)
        author == _normalize(author0)
        vt     == _validate_title(title)
        va     == _validate_author(author)
        vy     == _validate_year(year)
        got    == get_all(h, self.library)
        all_books == ListCopy(got.heap, got.ret)
        added  == add_book(all_books.heap, self.library, Book(title, author, vy.ret[2]))
    IN  IF ~vt.ret THEN [heap |-> h, log |-> vt.log]
        ELSE IF ~va.ret THEN [heap |-> h, log |-> vt.log \o va.log]
        ELSE IF _exists(title, author, all_books.heap[all_books.ret])
        THEN [heap |-> all_books.heap,
              log |-> vt.log \o va.log \o got.log \o <<DuplicateBook>>]
        ELSE IF ~vy.ret[1] THEN [heap |-> all_books.heap, log |-> vt.log \o va.log \o got.log \o vy.log]
        ELSE [heap |-> added.heap,
              log |-> vt.log \o va.log \o vy.log \o got.log \o added.log \o <<BookAdded>>]

\* an add_book that validates the title as given
LibraryManager_add_book_RawTitle(h, self, title0, author0, year) ==
    LET title  == _normalize(title0)
        author == _normalize(author0)
        vt     == _validate_title(title0)
        va     == _validate_author(author)
        vy     == _validate_year(year)
        got    == get_all(h, self.library)
        all_books == ListCopy(got.heap, got.ret)
        added  == add_book(all_books.heap, self.library, Book(title, author, vy.ret[2]))
    IN  IF ~vt.ret THEN [heap |-> h, log |-> vt.log]
        ELSE IF ~va.ret THEN [heap |-> h, log |-> vt.log \o va.log]
        ELSE IF ~vy.ret[1] THEN [heap |-> h, log |-> vt.log \o va.log \o vy.log]
        ELSE IF _exists(title, author, all_books.heap[all_books.ret])
        THEN [heap |-> all_books.heap,
              log |-> vt.log \o va.log \o vy.log \o got.log \o <<DuplicateBook>>]
        ELSE [heap |-> added.heap,
              log |-> vt.log \o va.log \o vy.log \o got.log \o added.log \o <<BookAdded>>]

LibraryManager_add_book(h, self, title0, author0, year) ==
    LET title  == _normalize(title0)
        author == _normalize(author0)
        vt     == _validate_title(title)
        va     == _validate_author(author)
        vy     == _validate_year(year)
        got    == get_all(h, self.library)
        all_books == ListCopy(got.heap, got.ret)
        added  == add_book(all_books.heap, self.library, Book(title, author, vy.ret[2]))
    IN  IF ~vt.ret THEN [heap |-> h, log |-> vt.log]
        ELSE IF ~va.ret THEN [heap |-> h, log |-> vt.log \o va.log]
        ELSE IF ~vy.ret[1] THEN [heap |-> h, log |-> vt.log \o va.log \o vy.log]
        ELSE IF _exists(title, author, all_books.heap[all_books.ret])
        THEN [heap |-> all_books.heap,
              log |-> vt.log \o va.log \o vy.log \o got.log \o <<DuplicateBook>>]
        ELSE [heap |-> added.heap,
              log |-> vt.log \o va.log \o vy.log \o got.log \o added.log \o <<BookAdded>>]

LibraryManager_remove_book(h, self, title0) ==
    LET title == _normalize(title0)
        r     == remove_book(h, self.library, title)
    IN  [heap |-> r.heap, log |-> r.log \o <<IF r.ret THEN Removed ELSE NotFound>>]

LibraryManager_show_books(h, self) ==
    LET got   == get_all(h, self.library)
        books == ListCopy(got.heap, got.ret)
        items == books.heap[books.ret]
    IN  [heap |-> books.heap,
         log |-> got.log \o (IF items = <<>> THEN <<Empty>>
                             ELSE [k \in 1..Len(items) |-> BookStr(items[k])])]

(***************************************************************************)
(* Inputs                                                                  *)
(***************************************************************************)
\* n copies of the character c
Rep(c, n) == [k \in 1..n |-> c]

\* Spec: the (title, author) pairs the caller asks to add: two spellings of
\* one title and another title, with two spellings of one author; and the
\* second spelling with another author.
Titles == {<<"I", "t">>, <<" ", "i", "T", " ">>, <<"G", "o">>}
Authors == {<<"F", "H">>, <<"f", "h", " ">>}
Requests == (Titles \X Authors) \cup {<<<<" ", "i", "T", " ">>, <<"J", " ", "\t", "R">>>>}
\* a year text that is no integer and one that is a valid year
Years == {<<"x">>, <<"1", "9", "6", "5">>}

\* ValidationSpec: a text for every branch of the three validators.
\* LongTitle is 256 characters as given and 255 once normalized;
\* OverlongTitle is 257 characters as given and 256 once normalized.
LongTitle == Rep("a", MaxChars - 2) \o <<" ", " ", "b">>
OverlongTitle == Rep("a", MaxChars - 1) \o <<" ", " ", "b">>
FieldTitles == {<<>>, <<" ", "\t">>, <<" ", "X", " ">>, LongTitle, OverlongTitle}
FieldAuthors == {<<>>, <<"Z">>, <<"1", "2">>, <<"F", "H">>, <<" ", "f", "h">>, Rep("b", MaxChars + 1)}
FieldYears == {<<"x">>, <<"-", "1">>, <<"1", "4", "4", "9">>, <<"1", "4", "5", "0">>,
               <<"2", "0", "2", "7">>, <<"2", "0", "2", "8">>}

(***************************************************************************)
(* The manager driven by its caller (main): Spec and ValidationSpec        *)
(***************************************************************************)
\* the books of the library under the manager
Books == heap[BooksAddr(manager.library)]

\* no call is being made / no call has returned
Idle == [op |-> "idle", args |-> <<>>]
NoCall == [op |-> "none", args |-> <<>>, log |-> <<>>, before |-> <<>>]

\* main(): lib = Library() or lib = LoggedLibrary(Library()), then
\* manager = LibraryManager(lib)
Setup(years, libs) ==
    /\ heap = <<<<>>>>
    /\ manager \in {LibraryManager(lib) : lib \in libs}
    /\ CURRENT_YEAR \in years
    /\ call = Idle
    /\ last = NoCall
    /\ plain = None
    /\ logged = None
    /\ held = <<>>
    /\ snap = NoSnap

ManagerRoots == {BooksAddr(manager.library)}

\* the caller has its arguments ready and is about to call the manager
Request(calls) ==
    /\ call = Idle
    /\ call' \in calls
    /\ last' = NoCall
    /\ UNCHANGED <<heap, manager, CURRENT_YEAR, plain, logged, held, snap>>

\* what a call of the manager leaves behind
Returned(r) ==
    /\ heap' = Collect(r.heap, ManagerRoots)
    /\ last' = [op |-> call.op, args |-> call.args, log |-> r.log, before |-> Books]
    /\ call' = Idle
    /\ UNCHANGED <<manager, CURRENT_YEAR, plain, logged, held, snap>>

\* manager.add_book(title, author, year)
ManagerAdd ==
    /\ call.op = "add_book"
    /\ Returned(LibraryManager_add_book(heap, manager, call.args[1], call.args[2], call.args[3]))

\* manager.remove_book(title)
ManagerRemove ==
    /\ call.op = "remove_book"
    /\ Returned(LibraryManager_remove_book(heap, manager, call.args[1]))

\* manager.show_books()
ManagerShow ==
    /\ call.op = "show_books"
    /\ Returned(LibraryManager_show_books(heap, manager))

\* the calls of the manager with titles and authors from R, years from Y
\* and titles to remove from T
Calls(R, Y, T) ==
    {[op |-> "add_book", args |-> <<r[1], r[2], y>>] : r \in R, y \in Y}
        \cup {[op |-> "remove_book", args |-> <<t>>] : t \in T}
        \cup {[op |-> "show_books", args |-> <<>>]}

\* main(): lib = Library() or lib = LoggedLibrary(Library())
Libraries == {Library(1), LoggedLibrary(Library(1))}

Init == Setup({ThisYear}, Libraries)

\* the calls the caller makes in Spec
ManagerCalls == Calls(Requests, Years, Titles)

Next == Request(ManagerCalls) \/ ManagerAdd \/ ManagerRemove \/ ManagerShow

Spec == Init /\ [][Next]_vars

\* datetime.now().year in a run this year and in a run the next
CurrentYears == {ThisYear, ThisYear + 1}

ValidationInit == Setup(CurrentYears, Libraries)

\* the calls the caller makes in ValidationSpec
FieldCalls == Calls(FieldTitles \X FieldAuthors, FieldYears, FieldTitles)

ValidationNext ==
    \/ Request(FieldCalls)
    \/ ManagerAdd
    \/ ManagerRemove
    \/ ManagerShow

ValidationSpec == ValidationInit /\ [][ValidationNext]_vars

(***************************************************************************)
(* A Library and a LoggedLibrary given the same calls: StoreSpec           *)
(***************************************************************************)
\* the books and the titles the caller passes to the two libraries
StoreBooks ==
    {Book(<<"I", "t">>, <<"F", "H">>, 1965), Book(<<"I", "t">>, <<"J", "R">>, 1937),
     Book(<<"G", "o">>, <<"F", "H">>, 1965)}
StoreTitles == {<<"I", "t">>, <<"G", "o">>, <<"i", "t">>}

\* the books of the Library and of the Library inside the LoggedLibrary
PlainBooks == heap[BooksAddr(plain)]
LoggedBooks == heap[BooksAddr(logged)]

\* the lists some name refers to
StoreRoots(h) == {BooksAddr(plain), BooksAddr(logged)} \cup {h[k] : k \in DOMAIN h}

NoStoreCall == [op |-> "none", args |-> <<>>, ret |-> <<>>, log |-> <<>>, before |-> <<>>, snap |-> NoSnap]

\* plain = Library(); logged = LoggedLibrary(Library()), or
\* LoggedLibrary(LoggedLibrary(Library())), and so on
StoreInit ==
    /\ heap = <<<<>>, <<>>>>
    /\ plain = Library(1)
    /\ logged \in {Wrapped(d, Library(2)) : d \in 1..MaxDepth}
    /\ held = <<>>
    /\ snap = NoSnap
    /\ last = NoStoreCall
    /\ manager = None
    /\ CURRENT_YEAR = ThisYear
    /\ call = Idle

\* what the same call of the two libraries leaves behind, p and l being
\* the results of the call of plain and of the call of logged after it
StoreReturned(op, args, p, l, heldAfter, snapAfter) ==
    /\ heap' = Collect(l.heap, StoreRoots(heldAfter))
    /\ held' = heldAfter
    /\ snap' = snapAfter
    /\ last' = [op |-> op, args |-> args, ret |-> <<p.ret, l.ret>>, log |-> <<p.log, l.log>>,
                before |-> <<PlainBooks, LoggedBooks>>, snap |-> snap]
    /\ UNCHANGED <<manager, CURRENT_YEAR, call, plain, logged>>

\* plain.add_book(book); logged.add_book(book)
StoreAdd ==
    \E book \in StoreBooks :
        LET p == add_book(heap, plain, book)
            l == add_book(p.heap, logged, book)
        IN  /\ Len(PlainBooks) < MaxBooks
            /\ Len(LoggedBooks) < MaxBooks
            /\ StoreReturned("add_book", <<book>>, p, l, held, NoSnap)

\* plain.remove_book(title); logged.remove_book(title)
StoreRemove ==
    \E title \in StoreTitles :
        LET p == remove_book(heap, plain, title)
            l == remove_book(p.heap, logged, title)
        IN  StoreReturned("remove_book", <<title>>, p, l, held, NoSnap)

\* held = (plain.get_all(), logged.get_all())
StoreGetAll ==
    LET p == get_all(heap, plain)
        l == get_all(p.heap, logged)
    IN  StoreReturned("get_all", <<>>, p, l, <<p.ret, l.ret>>,
                      <<l.heap[p.ret], l.heap[l.ret]>>)

\* plain.find_by_title(title); logged.find_by_title(title)
StoreFind ==
    \E title \in StoreTitles :
        LET p == find_by_title(heap, plain, title)
            l == find_by_title(p.heap, logged, title)
        IN  StoreReturned("find_by_title", <<title>>, p, l, held, snap)

\* what the caller does to a list it got from get_all
Reversed(xs) == [k \in 1..Len(xs) |-> xs[Len(xs) + 1 - k]]
Mutations ==
    {[kind |-> "append", book |-> b] : b \in StoreBooks}
        \cup {[kind |-> "del", book |-> None], [kind |-> "reverse", book |-> None]}
Mutated(xs, m) ==
    IF m.kind = "append" THEN Append(xs, m.book)
    ELSE IF m.kind = "del" THEN Tail(xs)
    ELSE Reversed(xs)

\* the caller appends to, deletes from or reorders the lists it holds
CallerMutates ==
    \E m \in Mutations :
        /\ held # <<>>
        /\ m.kind = "append" => Len(heap[held[1]]) < MaxBooks /\ Len(heap[held[2]]) < MaxBooks
        /\ m.kind = "del" => heap[held[1]] # <<>> /\ heap[held[2]] # <<>>
        /\ heap' = [a \in DOMAIN heap |->
                       IF a = held[1] \/ a = held[2] THEN Mutated(heap[a], m) ELSE heap[a]]
        /\ last' = [op |-> "mutate", args |-> <<m>>, ret |-> <<>>, log |-> <<>>,
                    before |-> <<PlainBooks, LoggedBooks>>, snap |-> snap]
        /\ UNCHANGED <<manager, CURRENT_YEAR, call, plain, logged, held, snap>>

StoreNext == StoreAdd \/ StoreRemove \/ StoreGetAll \/ StoreFind \/ CallerMutates

StoreSpec == StoreInit /\ [][StoreNext]_vars

(***************************************************************************)
(* Properties                                                              *)
(***************************************************************************)
LibraryLogFormats == {"[LOG] add: %s", "[LOG] remove: %s", "[LOG] get_all", "[LOG] find: %s"}

\* the lines of a log the manager itself wrote
Diagnostics(log) == SelectSeq(log, LAMBDA line : line[1] \notin LibraryLogFormats)

\* the lines of a log a LoggedLibrary wrote
LibraryLines(log) == SelectSeq(log, LAMBDA line : line[1] \in LibraryLogFormats)

\* s is whitespace-normalized: single spaces between words, none at the ends
IsNormalized(s) ==
    /\ \A k \in 1..Len(s) : IsSpace(s[k]) => s[k] = " " /\ 1 < k /\ k < Len(s)
    /\ \A k \in 1..(Len(s) - 1) : ~(IsSpace(s[k]) /\ IsSpace(s[k + 1]))

\* book b has the title and the author given, whitespace and letter case aside
SameKey(b, title, author) ==
    /\ Lower(b.title) = Lower(_normalize(title))
    /\ Lower(b.author) = Lower(_normalize(author))

\* the year text is an integer from MIN_YEAR to the current year
YearAccepted(year) ==
    ParseInt(year).ok /\ MIN_YEAR <= ParseInt(year).value /\ ParseInt(year).value <= CURRENT_YEAR

YearDiagnostics == {YearNotInteger, YearNegative, YearTooEarly, YearTooLate}

\* the last call was add_book of a (title, author) some stored book had
DuplicateAdd ==
    /\ last.op = "add_book"
    /\ \E k \in 1..Len(last.before) : SameKey(last.before[k], last.args[1], last.args[2])

\* C1: no two stored books have the same (title, author) pair, letter case
\* aside.
C1_UniqueTitleAuthor ==
    \A j, k \in 1..Len(Books) :
        j # k => ~(Lower(Books[j].title) = Lower(Books[k].title)
                   /\ Lower(Books[j].author) = Lower(Books[k].author))

\* Two books of one title are stored and an add_book of the first in another
\* letter case has just been turned down.
C1_Witness ==
    /\ DuplicateAdd
    /\ Diagnostics(last.log) = <<DuplicateBook>>
    /\ Len(Books) >= 2
    /\ Lower(Books[1].title) = Lower(Books[2].title)
    /\ Books[1].title # _normalize(last.args[1])
    /\ SameKey(Books[1], last.args[1], last.args[2])

\* C2 as claimed: an add_book of a stored (title, author), in any letter case
\* and with any year text, reports DuplicateBook and leaves the books as
\* they were.
C2_AnyYearIsDuplicate ==
    DuplicateAdd => Diagnostics(last.log) = <<DuplicateBook>> /\ Books = last.before

\* C2 amended: an add_book of a stored (title, author), in any letter case,
\* leaves the books as they were; it reports DuplicateBook when the year
\* text is an integer from MIN_YEAR to the current year, and the year's own
\* diagnostic otherwise.
C2_DuplicateRejected ==
    DuplicateAdd =>
        /\ Books = last.before
        /\ Len(Diagnostics(last.log)) = 1
        /\ IF YearAccepted(last.args[3])
           THEN Diagnostics(last.log) = <<DuplicateBook>>
           ELSE Diagnostics(last.log)[1] \in YearDiagnostics

\* A stored book was asked for again in another letter case, with a valid
\* year, and turned down.
C2_Witness ==
    /\ DuplicateAdd
    /\ YearAccepted(last.args[3])
    /\ \E k \in 1..Len(last.before) :
          /\ SameKey(last.before[k], last.args[1], last.args[2])
          /\ last.before[k].title # _normalize(last.args[1])
          /\ last.before[k].author # _normalize(last.args[2])
    /\ Diagnostics(last.log) = <<DuplicateBook>>

\* the places of the books of the title given among books
Matches(books, title) == {k \in 1..Len(books) : books[k].title = title}

\* C5: remove_book(title) normalizes the title; with no stored book of
\* exactly that title it reports NotFound and changes nothing, otherwise it
\* reports Removed and the books are the ones before without the earliest
\* book of that title, the others in their order.
C5_RemoveFirstMatch ==
    last.op = "remove_book" =>
        LET title == _normalize(last.args[1])
            hits  == Matches(last.before, title)
        IN  IF hits = {}
            THEN Diagnostics(last.log) = <<NotFound>> /\ Books = last.before
            ELSE /\ Diagnostics(last.log) = <<Removed>>
                 /\ Len(Books) = Len(last.before) - 1
                 /\ \E k \in hits :
                       /\ \A j \in hits : k <= j
                       /\ Books = [n \in 1..(Len(last.before) - 1) |->
                                     IF n < k THEN last.before[n] ELSE last.before[n + 1]]

\* Of three books the second and the third had the title removed, which was
\* given with whitespace around it.
C5_Witness ==
    /\ last.op = "remove_book"
    /\ Len(last.before) = 3
    /\ \A k \in 1..3 : k \in Matches(last.before, _normalize(last.args[1])) <=> k # 1
    /\ last.args[1] # _normalize(last.args[1])
    /\ Diagnostics(last.log) = <<Removed>>
    /\ Books = <<last.before[1], last.before[3]>>

\* C7: after an add_book that reports success the books are the ones before,
\* in their order, and then one book of the normalized title and author, in
\* the letter case given, and the year parsed; show_books lists the stored
\* books in their order, so that book last.
C7_AddAppends ==
    /\ (last.op = "add_book" /\ Diagnostics(last.log) = <<BookAdded>>) =>
          Books = Append(last.before, [title |-> _normalize(last.args[1]),
                                       author |-> _normalize(last.args[2]),
                                       year |-> ParseInt(last.args[3]).value])
    /\ (last.op = "show_books" /\ Books # <<>>) =>
          Diagnostics(last.log) = [k \in 1..Len(Books) |->
              <<"Title: %s, Author: %s, Year: %d", Books[k].title, Books[k].author, Books[k].year>>]

\* A book given with whitespace around its title and in mixed case has been
\* added after another.
C7_Witness ==
    /\ last.op = "add_book"
    /\ Diagnostics(last.log) = <<BookAdded>>
    /\ last.before # <<>>
    /\ last.args[1] = <<" ", "i", "T", " ">>
    /\ Books[Len(Books)].title = <<"i", "T">>
    /\ Books[Len(Books)].year = 1965

\* C3: add_book checks the title, then the author, then the year, then
\* uniqueness; its only diagnostic is the one of the first stage that fails;
\* a failed add leaves the books as they were and never reaches the
\* library's add_book, a successful one adds one book through it.
C3_StagesInOrder ==
    last.op = "add_book" =>
        LET title  == _normalize(last.args[1])
            author == _normalize(last.args[2])
            t      == _validate_title(title)
            a      == _validate_author(author)
            y      == _validate_year(last.args[3])
            expected == IF ~t.ret THEN t.log
                        ELSE IF ~a.ret THEN a.log
                        ELSE IF ~y.ret[1] THEN y.log
                        ELSE IF _exists(title, author, last.before) THEN <<DuplicateBook>>
                        ELSE <<BookAdded>>
            added  == SelectSeq(last.log, LAMBDA line : line[1] = "[LOG] add: %s")
        IN  /\ Len(expected) = 1
            /\ Diagnostics(last.log) = expected
            /\ IF expected = <<BookAdded>>
               THEN /\ Len(Books) = Len(last.before) + 1
                    /\ manager.library.cls = "LoggedLibrary" => Len(added) = 1
               ELSE Books = last.before /\ added = <<>>

\* With books stored, under a LoggedLibrary, an add_book whose title, author
\* and year are all three invalid reported the title alone.
C3_Witness ==
    /\ last.op = "add_book"
    /\ last.before # <<>>
    /\ manager.library.cls = "LoggedLibrary"
    /\ ~_validate_title(_normalize(last.args[1])).ret
    /\ ~_validate_author(_normalize(last.args[2])).ret
    /\ ~_validate_year(last.args[3]).ret[1]
    /\ Diagnostics(last.log) = <<TitleTooShort>>
    /\ Books = last.before

\* C4 as claimed: an add_book of a title of fewer than 2 characters once
\* trimmed, the empty and the blank title included, reports TitleTooShort
\* and leaves the books as they were.
C4_BlankIsTooShort ==
    (last.op = "add_book" /\ Len(Strip(last.args[1])) < 2) =>
        Diagnostics(last.log) = <<TitleTooShort>> /\ Books = last.before

\* C4 amended: an add_book of a title of exactly one character once trimmed
\* reports TitleTooShort, one of an empty or blank title reports EmptyTitle,
\* and both leave the books as they were, whatever the author and the year.
C4_ShortTitleRejected ==
    (last.op = "add_book" /\ Len(Strip(last.args[1])) < 2) =>
        /\ Books = last.before
        /\ Diagnostics(last.log) =
              IF Len(Strip(last.args[1])) = 1 THEN <<TitleTooShort>> ELSE <<EmptyTitle>>

\* With a book stored, a one-character title with a valid author and a valid
\* year was turned down as too short.
C4_Witness ==
    /\ last.op = "add_book"
    /\ Len(Strip(last.args[1])) = 1
    /\ _validate_author(_normalize(last.args[2])).ret
    /\ YearAccepted(last.args[3])
    /\ last.before # <<>>
    /\ Diagnostics(last.log) = <<TitleTooShort>>
    /\ Books = last.before

RECURSIVE Depth(_)
\* the wrappers around the Library at the core of self
Depth(self) == IF self.cls = "Library" THEN 0 ELSE 1 + Depth(self._inner)

\* the operations of LibraryInterface
StoreOps == {"add_book", "remove_book", "get_all", "find_by_title"}

\* C6: given the same calls, a LoggedLibrary around a Library or around
\* another LoggedLibrary returns what the plain Library returns (for get_all
\* a list of the same books) and stores the same books; the plain Library
\* logs nothing and the LoggedLibrary one line for each wrapper.
C6_LoggedEquivalent ==
    /\ PlainBooks = LoggedBooks
    /\ last.op \in StoreOps =>
          /\ IF last.op = "get_all" THEN snap[1] = snap[2] ELSE last.ret[1] = last.ret[2]
          /\ last.log[1] = <<>>
          /\ Len(last.log[2]) = Depth(logged)
          /\ LibraryLines(last.log[2]) = last.log[2]

\* Both libraries held two books and, the LoggedLibrary being wrapped twice,
\* both removed one and said so.
C6_Witness ==
    /\ last.op = "remove_book"
    /\ Depth(logged) = 2
    /\ Len(last.before[1]) = 2
    /\ last.ret = <<TRUE, TRUE>>
    /\ Len(PlainBooks) = 1
    /\ PlainBooks = LoggedBooks
    /\ Len(last.log[2]) = 2

\* C8: what the caller does to a list get_all returned leaves the books of
\* the library as they were, and a get_all with no add_book or remove_book
\* since the get_all before it returns the same books in the same order.
C8_GetAllSnapshot ==
    /\ last.op = "mutate" => PlainBooks = last.before[1] /\ LoggedBooks = last.before[2]
    /\ (last.op = "get_all" /\ last.snap # NoSnap) => snap = last.snap

\* The caller reversed the two lists it got, so that they differ from the
\* books of the libraries, which are two and as they were.
C8_Witness ==
    /\ last.op = "mutate"
    /\ last.args[1].kind = "reverse"
    /\ Len(PlainBooks) = 2
    /\ heap[held[1]] # PlainBooks
    /\ heap[held[2]] # LoggedBooks
    /\ PlainBooks = last.before[1]
    /\ LoggedBooks = last.before[2]

\* C9 as claimed: an add_book of a title longer than 255 characters as given
\* reports TitleTooLong, also when normalization shortens it to 255 or fewer.
C9_RawLengthChecked ==
    (last.op = "add_book" /\ Len(last.args[1]) > MaxChars) =>
        Diagnostics(last.log) = <<TitleTooLong>>

\* C9 amended: both length checks are made on the normalized title: add_book
\* reports TitleTooShort exactly when the normalized title has one
\* character and TitleTooLong exactly when it has more than 255, whatever
\* the length of the title as given.
C9_NormalizedLengthChecked ==
    last.op = "add_book" =>
        /\ Diagnostics(last.log) = <<TitleTooShort>> <=> Len(_normalize(last.args[1])) = 1
        /\ Diagnostics(last.log) = <<TitleTooLong>> <=> Len(_normalize(last.args[1])) > MaxChars

\* A title of 256 characters as given and 255 once normalized has been
\* added.
C9_Witness ==
    /\ last.op = "add_book"
    /\ Len(last.args[1]) = MaxChars + 1
    /\ Len(_normalize(last.args[1])) = MaxChars
    /\ Diagnostics(last.log) = <<BookAdded>>
    /\ Books # <<>>
    /\ Books[Len(Books)].title = _normalize(last.args[1])

\* s is a normalized text of 2 to 255 characters
FieldOk(s) == IsNormalized(s) /\ 2 <= Len(s) /\ Len(s) <= MaxChars

\* C10: every stored book has a normalized title and author of 2 to 255
\* characters, an author that is not all digits and an integer year from
\* 1450 to the current year; an add_book that gets past the title and the
\* author with an integer year text reports YearNegative below 0,
\* YearTooEarly from 0 to 1449, YearTooLate above the current year, and no
\* year diagnostic from 1450 to the current year.
C10_FieldInvariants ==
    /\ \A k \in 1..Len(Books) :
          /\ FieldOk(Books[k].title)
          /\ FieldOk(Books[k].author)
          /\ ~IsDigit(Books[k].author)
          /\ Books[k].year \in Int
          /\ 1450 <= Books[k].year
          /\ Books[k].year <= CURRENT_YEAR
    /\ (/\ last.op = "add_book"
        /\ _validate_title(_normalize(last.args[1])).ret
        /\ _validate_author(_normalize(last.args[2])).ret
        /\ ParseInt(last.args[3]).ok) =>
          LET y == ParseInt(last.args[3]).value
          IN  Diagnostics(last.log) =
                IF y < 0 THEN <<YearNegative>>
                ELSE IF y < 1450 THEN <<YearTooEarly>>
                ELSE IF y > CURRENT_YEAR THEN <<YearTooLate>>
                ELSE IF _exists(_normalize(last.args[1]), _normalize(last.args[2]), last.before)
                THEN <<DuplicateBook>>
                ELSE <<BookAdded>>

\* A book of the current year, with a title of 255 characters, has just been
\* added.
C10_Witness ==
    /\ last.op = "add_book"
    /\ Diagnostics(last.log) = <<BookAdded>>
    /\ Len(Books) = 1
    /\ Books[1].year = CURRENT_YEAR
    /\ Len(Books[1].title) = MaxChars
    /\ ParseInt(last.args[3]).value = CURRENT_YEAR

====
